---- MODULE Spec2Model ----
(***************************************************************************)
(* State-machine model of main.py, the 2-player Rainbow Six Siege tracker  *)
(* bot: the process-wide TRACKERS registry, the TrackerState / PlayerState *)
(* objects with their asyncio locks, and the interaction handlers          *)
(* (tracker_start, tracker_play, TrackerView._adjust_kills, tracker_show,  *)
(* tracker_remaining).  The handlers are coroutines on one event loop:     *)
(* each action below is the code that runs between two await points that   *)
(* really suspend (a network call of discord.py, or a wait for a lock).    *)
(***************************************************************************)
EXTENDS Integers, Sequences, FiniteSets

\* ------------------------------------------------------------------ bounds
NumTasks    == 2   \* interaction handlers that may be in flight together
MaxSessions == 2   \* TrackerState objects created over a run
MaxKills    == 1   \* the +1 button is not pressed at this score
MaxEvents   == 3   \* interactions dispatched and deletions done by users over a run

\* ------------------------------------------------------------------ catalog
ATTACKERS ==
  << "Rauora", "Striker*", "Deimos", "Ram", "Brava", "Grim", "Sens", "Osa", "Flores", "Zero",
     "Ace", "Iana", "Kali", "Amaru", "NØKK", "Gridlock", "Nomad", "Maverick", "Lion", "Finka",
     "Dokkaebi", "Zofia", "Ying", "Jackal", "Hibana", "CAPITÃO", "Blackbeard", "Buck", "Sledge",
     "Thatcher", "Ash", "Thermite", "Montagne", "Twitch", "Blitz", "IQ", "Fuze", "Glaz" >>

DEFENDERS ==
  << "Denari", "Skopós", "Sentry*", "Tubarão", "Fenrir", "Solis", "Azami", "Thorn", "Thunderbird",
     "Aruni", "Melusi", "Oryx", "Wamai", "Goyo", "Warden", "Mozzie", "Kaid", "Clash", "Maestro",
     "Alibi", "Vigil", "Ela", "Lesion", "Mira", "Echo", "Caveira", "Valkyrie", "Frost", "Mute",
     "Smoke", "Castle", "Pulse", "Doc", "Rook", "Jäger", "Bandit", "Tachanka", "Kapkan" >>

ALL_OPERATORS == ATTACKERS \o DEFENDERS

ALL_COUNT == Len(ALL_OPERATORS)

\* set(xs) of Python
SetOf(xs) == { xs[i] : i \in 1..Len(xs) }

\* set(ALL_OPERATORS), also the membership test `operator in ALL_OPERATORS`
ALL_SET == SetOf(ALL_OPERATORS)

ATT_SET == SetOf(ATTACKERS)

DEF_SET == SetOf(DEFENDERS)

\* ------------------------------------------------------------------ strings
\* Player names and player tokens are sequences of one-character strings, so
\* that strip() and lower() are computed and not assumed.
Upper == << "A", "B", "C", "D", "E", "F", "G", "H", "I", "J", "K", "L", "M",
            "N", "O", "P", "Q", "R", "S", "T", "U", "V", "W", "X", "Y", "Z" >>

Lower == << "a", "b", "c", "d", "e", "f", "g", "h", "i", "j", "k", "l", "m",
            "n", "o", "p", "q", "r", "s", "t", "u", "v", "w", "x", "y", "z" >>

Whitespace == { " " }

\* str.lower() on one character
LowerChar(c) ==
  IF \E i \in 1..Len(Upper) : Upper[i] = c
  THEN Lower[CHOOSE i \in 1..Len(Upper) : Upper[i] = c]
  ELSE c

\* str.lower()
StrLower(s) == [ i \in 1..Len(s) |-> LowerChar(s[i]) ]

RECURSIVE LStrip(_)
LStrip(s) == IF s # << >> /\ Head(s) \in Whitespace THEN LStrip(Tail(s)) ELSE s

RECURSIVE RStrip(_)
RStrip(s) ==
  IF s # << >> /\ s[Len(s)] \in Whitespace THEN RStrip(SubSeq(s, 1, Len(s) - 1)) ELSE s

\* str.strip()
StrStrip(s) == RStrip(LStrip(s))

\* _norm(s) = (s or "").strip().lower()
Norm(s) == StrLower(StrStrip(s))

\* ------------------------------------------------------------------ data model
None == 0

\* PlayerState(name=name)
PlayerState(name) ==
  [ name |-> name, kills |-> 0, played |-> {}, history |-> << >> ]

\* (mutant) add_play without the `operator in self.played` test
add_play_NoCheck(p, operator) ==
  [ ok |-> TRUE,
    p  |-> [ p EXCEPT !.played = @ \cup { operator }, !.history = Append(@, operator) ] ]

\* (mutant) add_play that forgets the history
add_play_NoHistory(p, operator) ==
  IF operator \in p.played
  THEN [ ok |-> FALSE, p |-> p ]
  ELSE [ ok |-> TRUE, p |-> [ p EXCEPT !.played = @ \cup { operator } ] ]

\* (mutant) add_play that puts the newest operator first in the history
add_play_NewestFirst(p, operator) ==
  IF operator \in p.played
  THEN [ ok |-> FALSE, p |-> p ]
  ELSE [ ok |-> TRUE,
         p  |-> [ p EXCEPT !.played = @ \cup { operator },
                           !.history = << operator >> \o @ ] ]

\* PlayerState.add_play: the returned flag and the player afterwards
add_play(p, operator) ==
  IF operator \in p.played
  THEN [ ok |-> FALSE, p |-> p ]
  ELSE [ ok |-> TRUE,
         p  |-> [ p EXCEPT !.played = @ \cup { operator },
                           !.history = Append(@, operator) ] ]

\* PlayerState.remaining_ops
remaining_ops(p) == ALL_SET \ p.played

\* (mutant) remaining_counts with the first count not restricted to attackers
remaining_counts_Unrestricted(p) ==
  LET rem == remaining_ops(p)
  IN  << Cardinality(rem), Cardinality(rem \cap DEF_SET) >>

\* PlayerState.remaining_counts
remaining_counts(p) ==
  LET rem == remaining_ops(p)
  IN  << Cardinality(rem \cap ATT_SET), Cardinality(rem \cap DEF_SET) >>

\* asyncio.Lock(): the flag and the FIFO of waiting handlers
NewLock == [ locked |-> FALSE, waiters |-> << >> ]

\* TrackerState(guild_id=..., player1=PlayerState(name=player1), ...)
TrackerState(guild_id, player1, player2) ==
  [ guild_id   |-> guild_id,
    player1    |-> PlayerState(player1),
    player2    |-> PlayerState(player2),
    message_id |-> None,
    channel_id |-> None,
    lock       |-> NewLock ]

\* TrackerState.player
player(state, key) == IF key = "P1" THEN state.player1 ELSE state.player2

\* the None that resolve_player_key returns (a key is a string here)
NoKey == "None"

\* (mutant) resolve_player_key trying the names before the aliases
resolve_player_key_NamesFirst(arg, state) ==
  LET v == Norm(arg)
  IN  IF v = Norm(state.player1.name) THEN "P1"
      ELSE IF v = Norm(state.player2.name) THEN "P2"
      ELSE IF v \in { <<"p","1">>, <<"1">>, <<"p","l","a","y","e","r","1">> } THEN "P1"
      ELSE IF v \in { <<"p","2">>, <<"2">>, <<"p","l","a","y","e","r","2">> } THEN "P2"
      ELSE NoKey

\* resolve_player_key: "P1", "P2" or None
resolve_player_key(arg, state) ==
  LET v == Norm(arg)
  IN  IF v \in { <<"p","1">>, <<"1">>, <<"p","l","a","y","e","r","1">> } THEN "P1"
      ELSE IF v \in { <<"p","2">>, <<"2">>, <<"p","l","a","y","e","r","2">> } THEN "P2"
      ELSE IF v = Norm(state.player1.name) THEN "P1"
      ELSE IF v = Norm(state.player2.name) THEN "P2"
      ELSE NoKey

\* (mutant) last_from_history that breaks one item late (len(out) > n)
RECURSIVE last_walk_LateBreak(_, _, _, _)
last_walk_LateBreak(h, side_set, n, out) ==
  IF h = << >> THEN out
  ELSE LET op   == h[Len(h)]
           out2 == IF op \in side_set /\ op \notin SetOf(out) THEN Append(out, op) ELSE out
       IN  IF Len(out2) > n THEN out2
           ELSE last_walk_LateBreak(SubSeq(h, 1, Len(h) - 1), side_set, n, out2)

\* format_player_block.last_from_history: the items it joins, newest first.
\* h is the part of p.history not yet walked (the loop walks it backwards),
\* out the items collected so far.
RECURSIVE last_walk(_, _, _, _)
last_walk(h, side_set, n, out) ==
  IF h = << >> THEN out
  ELSE LET op   == h[Len(h)]
           out2 == IF op \in side_set /\ op \notin SetOf(out) THEN Append(out, op) ELSE out
       IN  IF Len(out2) >= n THEN out2
           ELSE last_walk(SubSeq(h, 1, Len(h) - 1), side_set, n, out2)

last_from_history(p, side_set, n) == last_walk(p.history, side_set, n, << >>)

\* format_player_block: the values the block shows
format_player_block(p) ==
  LET rc == remaining_counts(p)
  IN  [ name       |-> p.name,
        kills      |-> p.kills,
        played     |-> Cardinality(p.played),
        remaining  |-> ALL_COUNT - Cardinality(p.played),
        played_att |-> Cardinality(p.played \cap ATT_SET),
        played_def |-> Cardinality(p.played \cap DEF_SET),
        rem_att    |-> rc[1],
        rem_def    |-> rc[2],
        last_att   |-> last_from_history(p, ATT_SET, 5),
        last_def   |-> last_from_history(p, DEF_SET, 5) ]

\* the embed of the live tracker message: one block per player
\* (built alike in tracker_start and update_tracker_message)
TrackerEmbed(state) ==
  << format_player_block(state.player1), format_player_block(state.player2) >>

\* make_remaining_embed: title and the two sorted lists, as sets
make_remaining_embed(state, which) ==
  LET p   == player(state, which)
      rem == remaining_ops(p)
  IN  << [ name |-> p.name, rem_att |-> rem \cap ATT_SET, rem_def |-> rem \cap DEF_SET ] >>

\* ------------------------------------------------------------------ inputs
GuildIds == { 1, 2 }

\* interaction.guild_id of a command: a guild, or None in a direct message
CommandGuilds == GuildIds \cup { None }

Ama  == << "A", "m", "a" >>
Beto == << "B", "e", "t", "o" >>

\* the (player1, player2) arguments given to /tracker start
NamePairs == { << Ama, Beto >> }

\* the player argument given to /tracker play and /tracker remaining
Tokens == { <<"b", "e", "t", "o">>, <<"p", "9">>, <<"P", "1">> }

\* the operator argument given to /tracker play
OperatorInputs == { "Ace", "Doc", "ace", " Ace" }

\* the deltas of the +1, -1 and -10 buttons
Deltas == { 1, -1, -10 }

Tasks == 1..NumTasks

\* ------------------------------------------------------------------ state
VARIABLES
  TRACKERS,   \* guild_id -> index into states of the registered TrackerState, None if absent
  states,     \* every TrackerState object created so far; the index is the object's identity
  messages,   \* messages[o]: the tracker message that tracker_start posts for states[o]
  tasks,      \* the interaction handlers: position, arguments, locals, outcome
  events,     \* the number of interactions dispatched and of deletions so far
  call,       \* SpecCalls only: the last direct call of a helper, with its result
  store       \* SpecStore only: the snapshot store, its clock and the sessions it saves

vars == << TRACKERS, states, messages, tasks, events, call, store >>

\* no helper has been called directly
NoCall == [ fn |-> "none" ]

NoEmbed == << >>

\* the session key the snapshot store is run for: a guild id (each key has its
\* own storage channel, save timestamp and state)
StoreKeys == { 1 }

\* the registry holds no session for a key
NoSession == [ sessionKey |-> None ]

\* no save request has been made for a key since the process started
NoRequest == [ force |-> FALSE, result |-> "none" ]

\* the snapshot store when the process has started for the first time: the
\* clock, and per session key the time of the last accepted save, the state
\* Idle or Saving, the stored records (oldest first), the number of records
\* ever appended, the session registered for the key, the last request, and
\* how far restore-on-start has come with what it found
NoStore ==
  [ now      |-> 1,
    last     |-> [ k \in StoreKeys |-> None ],
    phase    |-> [ k \in StoreKeys |-> "Idle" ],
    files    |-> [ k \in StoreKeys |-> << >> ],
    appended |-> [ k \in StoreKeys |-> 0 ],
    registry |-> [ k \in StoreKeys |-> NoSession ],
    req      |-> [ k \in StoreKeys |-> NoRequest ],
    restore  |-> [ k \in StoreKeys |-> "done" ],
    found    |-> [ k \in StoreKeys |-> NoSession ] ]

\* a handler slot with no interaction running
IdleTask ==
  [ pc |-> "idle", kind |-> "none", guild |-> None, state |-> None,
    names |-> << >>, token |-> << >>, which |-> NoKey, operator |-> "", delta |-> 0,
    outcome |-> "none", result |-> "none", embed |-> NoEmbed, log |-> << >> ]

\* the locals of a handler that has just been dispatched
NewTask(kind, guild) == [ IdleTask EXCEPT !.kind = kind, !.guild = guild, !.result = "pending" ]

Init ==
  /\ TRACKERS = [ g \in GuildIds |-> None ]
  /\ states = << >>
  /\ messages = << >>
  /\ tasks = [ t \in Tasks |-> IdleTask ]
  /\ events = 0
  /\ call = NoCall
  /\ store = NoStore

\* ------------------------------------------------------------------ asyncio.Lock
\* (mutant) the handler enters without looking at the lock
CanAcquire_Unguarded(lock) == TRUE

\* Lock.acquire takes the lock without suspending when it is free and nobody waits
CanAcquire(lock) == ~lock.locked /\ lock.waiters = << >>

\* Lock.acquire, fast path and the end of the slow path: self._locked = True
Acquired(ss, o) == [ ss EXCEPT ![o].lock.locked = TRUE ]

\* Lock.acquire, slow path: the handler appends its future to the waiters
Enqueued(ss, o, t) == [ ss EXCEPT ![o].lock.waiters = Append(@, t) ]

\* Lock.release (leaving `async with`): the first waiter is woken
Released(ss, o) == [ ss EXCEPT ![o].lock.locked = FALSE ]

\* the handlers between `async with ...lock:` and its end
InLock == { "fetch", "edit", "reply", "defer" }

\* ------------------------------------------------------------------ handler bodies
\* The operators below return the handler's locals (tk) and the heap of
\* TrackerState objects (ss) as they are when the handler next suspends.

Max(a, b) == IF a >= b THEN a ELSE b

\* (mutant) the score without the clamp
adjusted_Unclamped(p, delta) == [ p EXCEPT !.kills = @ + delta ]

\* _adjust_kills: p.kills = max(0, p.kills + delta)
adjusted(p, delta) == [ p EXCEPT !.kills = Max(0, @ + delta) ]

\* (mutant) the assignment reaching both players of the session
WithPlayer_Both(ss, o, which, p) ==
  [ ss EXCEPT ![o].player1 = p, ![o].player2 = p ]

\* state.player(which) replaced by p
WithPlayer(ss, o, which, p) ==
  IF which = "P1" THEN [ ss EXCEPT ![o].player1 = p ] ELSE [ ss EXCEPT ![o].player2 = p ]

\* what follows a normal return of update_tracker_message, up to the next await:
\* tracker_play awaits its confirmation, _adjust_kills awaits defer(), and
\* tracker_show builds the snapshot embeds, leaves the lock and awaits its post
Returned(tk, ss) ==
  CASE tk.kind = "play"   -> [ tk |-> [ tk EXCEPT !.pc = "reply" ], ss |-> ss ]
    [] tk.kind = "adjust" -> [ tk |-> [ tk EXCEPT !.pc = "defer" ], ss |-> ss ]
    [] tk.kind = "show"   -> [ tk |-> [ NewTask("none", None) EXCEPT !.pc = "send",
                                                                     !.outcome = tk.outcome ],
                               ss |-> Released(ss, tk.state) ]

\* update_tracker_message up to fetch_message: it returns at once when the
\* tracker has no message yet or the channel is not a channel any more
update_tracker_message(tk, ss, ms) ==
  LET tracker == ss[tk.state]
      tk2     == [ tk EXCEPT !.log = Append(@, "refresh") ]
  IN  IF tracker.channel_id = None \/ tracker.message_id = None THEN Returned(tk2, ss)
      ELSE IF ms[tracker.message_id].status = "nochannel" THEN Returned(tk2, ss)
      ELSE [ tk |-> [ tk2 EXCEPT !.pc = "fetch" ], ss |-> ss ]

\* (mutant) tracker_play recording before it validates the operator
play_locked_NoValidation(tk, ss, ms) ==
  LET r == add_play(player(ss[tk.state], tk.which), tk.operator)
  IN  IF ~r.ok
      THEN [ tk |-> [ tk EXCEPT !.pc = "reply", !.outcome = "AlreadyConsumed" ], ss |-> ss ]
      ELSE [ tk |-> [ tk EXCEPT !.pc = "reply", !.outcome = "Recorded",
                                !.log = Append(@, "mutate") ],
             ss |-> WithPlayer(ss, tk.state, tk.which, r.p) ]

\* tracker_play inside `async with state.lock`
play_locked(tk, ss, ms) ==
  IF tk.operator \notin ALL_SET
  THEN [ tk |-> [ tk EXCEPT !.pc = "reply", !.outcome = "UnknownItem" ], ss |-> ss ]
  ELSE LET r == add_play(player(ss[tk.state], tk.which), tk.operator)
       IN  IF ~r.ok
           THEN [ tk |-> [ tk EXCEPT !.pc = "reply", !.outcome = "AlreadyConsumed" ], ss |-> ss ]
           ELSE update_tracker_message(
                  [ tk EXCEPT !.outcome = "Recorded", !.log = Append(@, "mutate") ],
                  WithPlayer(ss, tk.state, tk.which, r.p), ms)

\* _adjust_kills inside `async with tracker.lock`
adjust_locked(tk, ss, ms) ==
  LET p == adjusted(player(ss[tk.state], tk.which), tk.delta)
  IN  update_tracker_message(
        [ tk EXCEPT !.outcome = "Adjusted", !.log = Append(@, "mutate") ],
        WithPlayer(ss, tk.state, tk.which, p), ms)

\* tracker_show inside `async with state.lock`
show_locked(tk, ss, ms) ==
  update_tracker_message([ tk EXCEPT !.outcome = "Shown" ], ss, ms)

\* the body of the handler's `async with`, entered with the lock just taken
Locked(tk, ss, ms) ==
  LET tk2 == [ tk EXCEPT !.log = Append(@, "acquire") ]
  IN  CASE tk.kind = "play"   -> play_locked(tk2, ss, ms)
        [] tk.kind = "adjust" -> adjust_locked(tk2, ss, ms)
        [] tk.kind = "show"   -> show_locked(tk2, ss, ms)

\* `async with tracker.lock:` reached by handler t with locals tk
Enter(t, tk) ==
  LET o == tk.state
  IN  IF CanAcquire(states[o].lock)
      THEN LET r == Locked(tk, Acquired(states, o), messages)
           IN  /\ tasks' = [ tasks EXCEPT ![t] = r.tk ]
               /\ states' = r.ss
      ELSE /\ tasks' = [ tasks EXCEPT ![t] = [ tk EXCEPT !.pc = "wait" ] ]
           /\ states' = Enqueued(states, o, t)

\* a reply that ends the handler outside any lock; the handler runs no code
\* after it, so of its locals only the outcome is kept
Answer(t, tk, outcome) ==
  tasks' = [ tasks EXCEPT ![t] =
              [ NewTask("none", None) EXCEPT !.pc = "send", !.outcome = outcome ] ]

\* something happens outside the bot: a user runs a command, presses a button
\* or deletes a message or a channel
Event ==
  /\ events < MaxEvents
  /\ events' = events + 1

\* discord.py dispatches an interaction to a new handler task t
Dispatch(t) ==
  /\ tasks[t].pc = "idle"
  /\ \A u \in Tasks : u < t => tasks[u].pc # "idle"   \* the first free slot: slots are alike
  /\ Event

\* a live tracker message, with its buttons, is shown in guild g
ButtonsIn(g) ==
  \E o \in 1..Len(states) : states[o].guild_id = g /\ messages[o].status = "live"

\* the handler returns or its exception reaches discord.py: the slot is free again
Finished(t) == tasks' = [ tasks EXCEPT ![t] = IdleTask ]

\* (mutant) an exception ends the handler with the lock still held
Raise_KeepsLock(t) ==
  /\ Finished(t)
  /\ UNCHANGED << TRACKERS, states, messages >>

\* an exception leaves `async with`: the lock is released, nothing is sent
Raise(t) ==
  /\ Finished(t)
  /\ states' = Released(states, tasks[t].state)
  /\ UNCHANGED << TRACKERS, messages >>

\* ------------------------------------------------------------------ actions
\* (mutant) tracker_start that keeps a session already registered for the guild
\* (TRACKERS.setdefault instead of the assignment)
TrackerStart_KeepExisting(t, g, names) ==
  /\ Dispatch(t)
  /\ IF g = None
     THEN /\ Answer(t, NewTask("start", g), "NoGuild")
          /\ UNCHANGED << TRACKERS, states, messages >>
     ELSE /\ Len(states) < MaxSessions
          /\ Len(states) = 0 => g = 1
          /\ LET o     == Len(states) + 1
                 state == TrackerState(g, names[1], names[2])
             IN  /\ states' = Append(states, state)
                 /\ messages' = Append(messages, [ status |-> "unsent", embed |-> NoEmbed ])
                 /\ TRACKERS' = IF TRACKERS[g] = None THEN [ TRACKERS EXCEPT ![g] = o ]
                                 ELSE TRACKERS
                 /\ tasks' = [ tasks EXCEPT ![t] =
                       [ NewTask("start", g) EXCEPT !.names = names,
                                                    !.state = o, !.pc = "start_send",
                                                    !.outcome = "Started",
                                                    !.embed = TrackerEmbed(state) ] ]

\* tracker_start up to `await interaction.response.send_message(embed=embed, view=view)`
TrackerStart(t, g, names) ==
  /\ Dispatch(t)
  /\ IF g = None
     THEN /\ Answer(t, NewTask("start", g), "NoGuild")
          /\ UNCHANGED << TRACKERS, states, messages >>
     ELSE /\ Len(states) < MaxSessions
          /\ Len(states) = 0 => g = 1   \* guild ids are alike: the first tracker is guild 1's
          /\ LET o     == Len(states) + 1
                 state == TrackerState(g, names[1], names[2])
             IN  /\ states' = Append(states, state)
                 /\ messages' = Append(messages, [ status |-> "unsent", embed |-> NoEmbed ])
                 /\ TRACKERS' = [ TRACKERS EXCEPT ![g] = o ]
                 /\ tasks' = [ tasks EXCEPT ![t] =
                       [ NewTask("start", g) EXCEPT !.names = names,
                                                    !.state = o, !.pc = "start_send",
                                                    !.outcome = "Started",
                                                    !.embed = TrackerEmbed(state) ] ]

\* tracker_start: send_message returns (the message is posted) or raises
StartSend(t) ==
  /\ tasks[t].pc = "start_send"
  /\ \/ /\ messages' = [ messages EXCEPT ![tasks[t].state] =
                           [ status |-> "live", embed |-> tasks[t].embed ] ]
        /\ tasks' = [ tasks EXCEPT ![t].pc = "start_orig" ]
     \/ /\ Finished(t)
        /\ UNCHANGED messages
  /\ UNCHANGED << TRACKERS, states >>

\* tracker_start: original_response returns and the handler stores the ids, or it raises
StartOrig(t) ==
  /\ tasks[t].pc = "start_orig"
  /\ \/ /\ messages[tasks[t].state].status = "live"
        /\ states' = [ states EXCEPT ![tasks[t].state].message_id = tasks[t].state,
                                     ![tasks[t].state].channel_id = tasks[t].guild ]
     \/ UNCHANGED states
  /\ Finished(t)
  /\ UNCHANGED << TRACKERS, messages >>

\* tracker_play up to its first suspension
TrackerPlay(t, g, token, operator) ==
  LET tk == [ NewTask("play", g) EXCEPT !.token = token, !.operator = operator ]
  IN  /\ Dispatch(t)
      /\ IF g = None THEN Answer(t, tk, "NoGuild") /\ UNCHANGED states
         ELSE IF TRACKERS[g] = None THEN Answer(t, tk, "NoTracker") /\ UNCHANGED states
         ELSE LET o     == TRACKERS[g]
                  which == resolve_player_key(token, states[o])
              IN  IF which = NoKey
                  THEN Answer(t, [ tk EXCEPT !.state = o ], "NoPlayer") /\ UNCHANGED states
                  ELSE Enter(t, [ tk EXCEPT !.state = o, !.which = which, !.token = << >> ])
      /\ UNCHANGED << TRACKERS, messages >>

\* TrackerView._adjust_kills (the six kill buttons) up to its first suspension
AdjustKills(t, g, which, delta) ==
  LET tk == [ NewTask("adjust", g) EXCEPT !.which = which, !.delta = delta ]
  IN  /\ Dispatch(t)
      /\ ButtonsIn(g)
      /\ IF TRACKERS[g] = None THEN Answer(t, tk, "NoTracker") /\ UNCHANGED states
         ELSE /\ delta > 0 => player(states[TRACKERS[g]], which).kills < MaxKills
              /\ Enter(t, [ tk EXCEPT !.state = TRACKERS[g] ])
      /\ UNCHANGED << TRACKERS, messages >>

\* tracker_show up to its first suspension
TrackerShow(t, g) ==
  LET tk == NewTask("show", g)
  IN  /\ Dispatch(t)
      /\ IF g = None \/ TRACKERS[g] = None THEN Answer(t, tk, "NoTracker") /\ UNCHANGED states
         ELSE Enter(t, [ tk EXCEPT !.state = TRACKERS[g] ])
      /\ UNCHANGED << TRACKERS, messages >>

\* tracker_remaining up to its reply (it takes no lock)
TrackerRemaining(t, g, token) ==
  LET tk == [ NewTask("remaining", g) EXCEPT !.token = token ]
  IN  /\ Dispatch(t)
      /\ IF g = None THEN Answer(t, tk, "NoGuild")
         ELSE IF TRACKERS[g] = None THEN Answer(t, tk, "NoTracker")
         ELSE LET o     == TRACKERS[g]
                  which == resolve_player_key(token, states[o])
              IN  IF which = NoKey
                  THEN Answer(t, [ tk EXCEPT !.state = o ], "NoPlayer")
                  ELSE Answer(t, [ tk EXCEPT !.state = o, !.which = which ], "Remaining")
      /\ UNCHANGED << TRACKERS, states, messages >>

\* TrackerView.p1_remaining / p2_remaining (the View Remaining buttons)
ViewRemaining(t, g, which) ==
  LET tk == [ NewTask("remaining", g) EXCEPT !.which = which ]
  IN  /\ Dispatch(t)
      /\ ButtonsIn(g)
      /\ IF TRACKERS[g] = None THEN Answer(t, tk, "NoTracker")
         ELSE Answer(t, [ tk EXCEPT !.state = TRACKERS[g] ], "Remaining")
      /\ UNCHANGED << TRACKERS, states, messages >>

\* a handler waiting in Lock.acquire is woken: it is first in line and the lock is free
Resume(t) ==
  LET tk == tasks[t]
      o  == tk.state
  IN  /\ tk.pc = "wait"
      /\ ~states[o].lock.locked
      /\ states[o].lock.waiters # << >>
      /\ Head(states[o].lock.waiters) = t
      /\ LET r == Locked(tk, Acquired([ states EXCEPT ![o].lock.waiters = Tail(@) ], o), messages)
         IN  /\ tasks' = [ tasks EXCEPT ![t] = r.tk ]
             /\ states' = r.ss
      /\ UNCHANGED << TRACKERS, messages >>

\* update_tracker_message: channel.fetch_message returns, raises NotFound (caught:
\* the function returns) or raises something else
Fetch(t) ==
  LET tk == tasks[t]
      m  == states[tk.state].message_id
  IN  /\ tk.pc = "fetch"
      /\ \/ /\ messages[m].status = "live"
            /\ tasks' = [ tasks EXCEPT ![t] =
                  [ tk EXCEPT !.pc = "edit", !.embed = TrackerEmbed(states[tk.state]) ] ]
            /\ UNCHANGED << TRACKERS, states, messages >>
         \/ /\ messages[m].status # "live"
            /\ LET r == Returned(tk, states)
               IN  /\ tasks' = [ tasks EXCEPT ![t] = r.tk ]
                   /\ states' = r.ss
            /\ UNCHANGED << TRACKERS, messages >>
         \/ Raise(t)

\* update_tracker_message: msg.edit returns or raises
Edit(t) ==
  LET tk == tasks[t]
      m  == states[tk.state].message_id
  IN  /\ tk.pc = "edit"
      /\ \/ /\ messages[m].status = "live"
            /\ messages' = [ messages EXCEPT ![m].embed = tk.embed ]
            /\ LET r == Returned([ tk EXCEPT !.embed = NoEmbed ], states)
               IN  /\ tasks' = [ tasks EXCEPT ![t] = r.tk ]
                   /\ states' = r.ss
            /\ UNCHANGED TRACKERS
         \/ Raise(t)

\* the last await inside the lock returns or raises: tracker_play's send_message,
\* _adjust_kills' defer (InteractionResponded is swallowed); the lock is released
Reply(t) ==
  /\ tasks[t].pc \in { "reply", "defer" }
  /\ Finished(t)
  /\ states' = Released(states, tasks[t].state)
  /\ UNCHANGED << TRACKERS, messages >>

\* the last await outside any lock returns or raises
Send(t) ==
  /\ tasks[t].pc = "send"
  /\ Finished(t)
  /\ UNCHANGED << TRACKERS, states, messages >>

\* a user deletes the tracker message
DeleteMessage(o) ==
  /\ Event
  /\ messages[o].status = "live"
  /\ messages' = [ messages EXCEPT ![o].status = "deleted" ]
  /\ UNCHANGED << TRACKERS, states, tasks >>

\* the channel of the tracker message is deleted
DeleteChannel(o) ==
  /\ Event
  /\ messages[o].status \in { "live", "deleted" }
  /\ messages' = [ messages EXCEPT ![o].status = "nochannel" ]
  /\ UNCHANGED << TRACKERS, states, tasks >>

Next ==
  \/ \E t \in Tasks, g \in CommandGuilds, names \in NamePairs : TrackerStart(t, g, names) /\ UNCHANGED << call, store >>
  \/ \E t \in Tasks : StartSend(t) /\ UNCHANGED << events, call, store >>
  \/ \E t \in Tasks : StartOrig(t) /\ UNCHANGED << events, call, store >>
  \/ \E t \in Tasks, g \in CommandGuilds, token \in Tokens, operator \in OperatorInputs :
        TrackerPlay(t, g, token, operator) /\ UNCHANGED << call, store >>
  \/ \E t \in Tasks, g \in GuildIds, which \in { "P1", "P2" }, delta \in Deltas :
        AdjustKills(t, g, which, delta) /\ UNCHANGED << call, store >>
  \/ \E t \in Tasks, g \in CommandGuilds : TrackerShow(t, g) /\ UNCHANGED << call, store >>
  \/ \E t \in Tasks, g \in CommandGuilds, token \in Tokens : TrackerRemaining(t, g, token) /\ UNCHANGED << call, store >>
  \/ \E t \in Tasks, g \in GuildIds, which \in { "P1", "P2" } : ViewRemaining(t, g, which) /\ UNCHANGED << call, store >>
  \/ \E t \in Tasks : Resume(t) /\ UNCHANGED << events, call, store >>
  \/ \E t \in Tasks : Fetch(t) /\ UNCHANGED << events, call, store >>
  \/ \E t \in Tasks : Edit(t) /\ UNCHANGED << events, call, store >>
  \/ \E t \in Tasks : Reply(t) /\ UNCHANGED << events, call, store >>
  \/ \E t \in Tasks : Send(t) /\ UNCHANGED << events, call, store >>
  \/ \E o \in 1..Len(messages) : DeleteMessage(o) /\ UNCHANGED << call, store >>
  \/ \E o \in 1..Len(messages) : DeleteChannel(o) /\ UNCHANGED << call, store >>

Spec == Init /\ [][Next]_vars

\* ------------------------------------------------------------------ direct calls
\* SpecCalls calls the helpers directly on inputs drawn from the sets below,
\* with the registry left as it is after import.
MaxHistory == 2   \* the longest history a directly called PlayerState holds

\* the operators of the PlayerStates called directly (all in the catalog:
\* tracker_play validates before it calls add_play)
CallOperators == { "Ace", "Ash", "Doc" }

\* the sequences over CallOperators of length n
RECURSIVE HistoriesOf(_)
HistoriesOf(n) ==
  IF n = 0 THEN { << >> }
  ELSE { Append(h, op) : h \in HistoriesOf(n - 1), op \in CallOperators }

\* the PlayerStates add_play is called on: what a run of the handlers can build
CallPlayers ==
  { [ name |-> Ama, kills |-> k, played |-> SetOf(h), history |-> h ] :
      k \in 0..1,
      h \in { x \in UNION { HistoriesOf(n) : n \in 0..MaxHistory } :
                Cardinality(SetOf(x)) = Len(x) } }

\* the names and tokens resolve_player_key is called on
CallNamePairs ==
  { << Ama, Beto >>, << <<"P", "2">>, Ama >>, << Beto, <<"1">> >>,
    << Ama, <<"a", "m", "a", " ">> >> }

CallTokens ==
  { <<"b", "e", "t", "o">>, <<"p", "9">>, <<"P", "1">>, <<"p", "2">>, <<"1">>,
    <<" ", "A", "M", "A">>, <<"P", "l", "a", "y", "e", "r", "2", " ">>, <<"a", "m">>, << >> }

\* p.add_play(operator), called for the first time
CallAddPlay(p, operator) ==
  /\ LET r == add_play(p, operator)
     IN  call' = [ fn |-> "add_play", n |-> 1, before |-> p, operator |-> operator,
                   ok1 |-> r.ok, after1 |-> r.p, ok2 |-> r.ok, after2 |-> r.p ]
  /\ UNCHANGED << TRACKERS, states, messages, tasks, events, store >>

\* the same call again on the same player
CallAddPlayAgain ==
  /\ call.fn = "add_play"
  /\ call.n = 1
  /\ LET r == add_play(call.after1, call.operator)
     IN  call' = [ call EXCEPT !.n = 2, !.ok2 = r.ok, !.after2 = r.p ]
  /\ UNCHANGED << TRACKERS, states, messages, tasks, events, store >>

\* resolve_player_key(token, state) on a state with the given names
CallResolve(token, names) ==
  /\ call' = [ fn |-> "resolve_player_key", token |-> token,
               name1 |-> names[1], name2 |-> names[2],
               result |-> resolve_player_key(token, TrackerState(1, names[1], names[2])) ]
  /\ UNCHANGED << TRACKERS, states, messages, tasks, events, store >>

NextCalls ==
  \/ \E p \in CallPlayers, operator \in CallOperators : CallAddPlay(p, operator)
  \/ CallAddPlayAgain
  \/ \E token \in CallTokens, names \in CallNamePairs : CallResolve(token, names)

SpecCalls == Init /\ [][NextCalls]_vars

\* ------------------------------------------------------------------ properties
\* the handlers that are between acquiring and releasing the lock of states[o]
Holders(o) == { t \in Tasks : tasks[t].pc \in InLock /\ tasks[t].state = o }

\* the session data of states[o] and what its live message shows
Effects(ss, ms, o) == << ss[o].player1, ss[o].player2, ms[o].embed >>

\* C1: for one session object the lock-guarded handlers (tracker_play,
\* _adjust_kills, tracker_show) exclude each other: at most one of them is
\* between acquiring and releasing the object's lock, the lock is then held,
\* and a step that changes the object's players or its message's content is
\* taken only by that handler or by a handler that enters while nobody is inside.
C1_OneHolder ==
  \A o \in 1..Len(states) :
    /\ Cardinality(Holders(o)) <= 1
    /\ Holders(o) # {} => states[o].lock.locked

C1_EffectsByHolder ==
  \A o \in 1..Len(states) :
    ( /\ messages'[o].status = messages[o].status   \* not tracker_start posting the message
      /\ Effects(states', messages', o) # Effects(states, messages, o) )
    => \/ \E t \in Holders(o) : tasks'[t] # tasks[t]
       \/ /\ Holders(o) = {}
          /\ \E t \in Tasks : t \in Holders(o)'

C2_TwiceInARow_EveryState ==
  (call.fn = "add_play" /\ call.n = 2) =>
    /\ call.ok1
    /\ call.operator \in call.after1.played
    /\ call.operator \notin remaining_ops(call.after1)
    /\ ~call.ok2
    /\ call.after2 = call.after1

\* C2 amended: the same, for every participant state in which the item is not
\* yet in played.
C2_TwiceInARow ==
  (call.fn = "add_play" /\ call.n = 2 /\ call.operator \notin call.before.played) =>
    /\ call.ok1
    /\ call.operator \in call.after1.played
    /\ call.operator \notin remaining_ops(call.after1)
    /\ call.after1.history = Append(call.before.history, call.operator)
    /\ ~call.ok2
    /\ call.after2.name = call.after1.name
    /\ call.after2.kills = call.after1.kills
    /\ call.after2.played = call.after1.played
    /\ call.after2.history = call.after1.history

\* C2 witness: add_play was called twice with an item new to a player who had
\* played something else before
C2_Witness ==
  /\ call.fn = "add_play"
  /\ call.n = 2
  /\ call.before.history # << >>
  /\ call.operator \notin call.before.played
  /\ call.before.kills > 0

\* the step in which handler t enters the `async with` of a handler of `kind`
\* (directly at dispatch, or woken from the lock's queue) and runs to its next await
Enters(t, kind) ==
  /\ tasks[t].pc \in { "idle", "wait" }
  /\ tasks'[t].pc \in InLock
  /\ tasks'[t].kind = kind

\* the catalog, from the two lists
AllItems == SetOf(ATTACKERS) \cup SetOf(DEFENDERS)

\* C3: tracker_play, once the player is resolved, yields exactly one of
\* Recorded, AlreadyConsumed, UnknownItem: UnknownItem exactly for an operator
\* outside the catalog (whatever the player has played), AlreadyConsumed exactly
\* for a catalog operator the player has played, Recorded for any other catalog
\* operator, which is then in played; Ace in a fresh session is Recorded, and
\* Ace again is AlreadyConsumed.
C3_OutcomeStep ==
  \A t \in Tasks :
    Enters(t, "play") =>
      LET tk     == tasks'[t]
          before == player(states[tk.state], tk.which)
          after  == player(states'[tk.state], tk.which)
      IN  /\ tk.outcome \in { "Recorded", "AlreadyConsumed", "UnknownItem" }
          /\ tk.outcome = "UnknownItem" <=> tk.operator \notin AllItems
          /\ tk.outcome = "AlreadyConsumed" <=>
               (tk.operator \in AllItems /\ tk.operator \in before.played)
          /\ tk.outcome = "Recorded" <=>
               (tk.operator \in AllItems /\ tk.operator \notin before.played)
          /\ tk.outcome = "Recorded" => tk.operator \in after.played
          /\ tk.outcome # "Recorded" => after = before
          /\ (tk.operator = "Ace" /\ before.history = << >>) => tk.outcome = "Recorded"
          /\ (tk.operator = "Ace" /\ before.history = << "Ace" >>) =>
               tk.outcome = "AlreadyConsumed"

\* C3: every step in which tracker_play enters its lock-guarded body classifies
\* the operator as C3_OutcomeStep says.
C3_Outcome == [][C3_OutcomeStep]_vars

\* C3 witness: Ace was recorded for player 1 of a session, and a second
\* /tracker play of Ace for the same player has been answered AlreadyConsumed
C3_Witness ==
  \E t \in Tasks :
    /\ tasks[t].kind = "play"
    /\ tasks[t].pc = "reply"
    /\ tasks[t].operator = "Ace"
    /\ tasks[t].which = "P1"
    /\ tasks[t].outcome = "AlreadyConsumed"
    /\ states[tasks[t].state].player1.history = << "Ace" >>

\* both players of every session object
Players == { player(states[o], which) : o \in 1..Len(states), which \in { "P1", "P2" } }

\* C4: the score is clamped at zero: every kill button sets the chosen
\* player's score to max(0, score + delta) and is never refused, so no score is
\* ever negative; -10 at score 0 leaves 0.
C4_NonNegative == \A p \in Players : p.kills >= 0

C4_AdjustStep ==
  \A t \in Tasks :
    Enters(t, "adjust") =>
      LET tk     == tasks'[t]
          before == player(states[tk.state], tk.which).kills
          after  == player(states'[tk.state], tk.which).kills
      IN  /\ tk.outcome = "Adjusted"
          /\ tk.delta \in { 1, -1, -10 }
          /\ after = (IF before + tk.delta < 0 THEN 0 ELSE before + tk.delta)
          /\ (before = 0 /\ tk.delta = -10) => after = 0

\* C4: no score is ever negative, and every kill button sets the score to
\* max(0, score + delta).
C4_ScoreClamped == []C4_NonNegative /\ [][C4_AdjustStep]_vars

\* C4 witness: the -10 button has just been handled for a player whose score
\* was below 10 and is now 0, while the other player's score is positive
C4_Witness ==
  \E t \in Tasks :
    /\ tasks[t].kind = "adjust"
    /\ tasks[t].pc \in InLock
    /\ tasks[t].delta = -10
    /\ tasks[t].which = "P1"
    /\ states[tasks[t].state].player1.kills = 0
    /\ states[tasks[t].state].player2.kills > 0

Aliases1 == { <<"p", "1">>, <<"1">>, <<"p", "l", "a", "y", "e", "r", "1">> }

Aliases2 == { <<"p", "2">>, <<"2">>, <<"p", "l", "a", "y", "e", "r", "2">> }

\* C5: resolve_player_key compares the token, letter case ignored, first with
\* the aliases p1/1/player1 and p2/2/player2, then with player 1's name, then
\* with player 2's; the first match wins and no match gives None.  An alias
\* wins over the other player's name, equal names give player 1, and with Ama
\* and Beto, "beto" is player 2 and "p9" is None.
C5_Resolve ==
  call.fn = "resolve_player_key" =>
    LET v  == Norm(call.token)
        n1 == Norm(call.name1)
        n2 == Norm(call.name2)
    IN  /\ call.result \in { "P1", "P2", NoKey }
        /\ v \in Aliases1 => call.result = "P1"
        /\ v \in Aliases2 => call.result = "P2"
        /\ (v \notin Aliases1 \cup Aliases2 /\ v = n1) => call.result = "P1"
        /\ (v \notin Aliases1 \cup Aliases2 /\ v # n1 /\ v = n2) => call.result = "P2"
        /\ (v \notin Aliases1 \cup Aliases2 /\ v # n1 /\ v # n2) => call.result = NoKey
        /\ (call.name1 = Ama /\ call.name2 = Beto /\ call.token = <<"b", "e", "t", "o">>)
             => call.result = "P2"
        /\ (call.name1 = Ama /\ call.name2 = Beto /\ call.token = <<"p", "9">>)
             => call.result = NoKey
        /\ (call.name1 = <<"P", "2">> /\ call.token = <<"p", "2">>) => call.result = "P2"
        /\ (call.name2 = <<"1">> /\ call.token = <<"1">>) => call.result = "P1"
        /\ (call.name1 = Ama /\ call.name2 = <<"a", "m", "a", " ">>
              /\ call.token = <<" ", "A", "M", "A">>) => call.result = "P1"

\* C5 witness: the token p2 was resolved in a session whose player 1 is named P2
C5_Witness ==
  /\ call.fn = "resolve_player_key"
  /\ call.token = <<"p", "2">>
  /\ call.name1 = <<"P", "2">>
  /\ call.result = "P2"

\* C6: tracker_start replaces the registry entry of its guild outright: right
\* after it the registered session is a new object with the two given names,
\* scores 0, nothing played, empty histories and no message or channel id,
\* whatever the previous session held; the entries of other guilds and every
\* object created before are as they were.
C6_StartStep ==
  \A t \in Tasks :
    (tasks[t].pc = "idle" /\ tasks'[t].pc = "start_send") =>
      LET tk == tasks'[t]
          o  == TRACKERS'[tk.guild]
      IN  /\ o = tk.state
          /\ o \notin 1..Len(states)
          /\ o \in 1..Len(states')
          /\ states'[o].guild_id = tk.guild
          /\ states'[o].player1 =
               [ name |-> tk.names[1], kills |-> 0, played |-> {}, history |-> << >> ]
          /\ states'[o].player2 =
               [ name |-> tk.names[2], kills |-> 0, played |-> {}, history |-> << >> ]
          /\ states'[o].message_id = None
          /\ states'[o].channel_id = None
          /\ \A g \in GuildIds \ { tk.guild } : TRACKERS'[g] = TRACKERS[g]
          /\ \A q \in 1..Len(states) : states'[q] = states[q]

\* C6: every step in which tracker_start replaces the registry entry leaves
\* the registry as C6_StartStep says.
C6_StartReplaces == [][C6_StartStep]_vars

\* C6 witness: tracker_start has just replaced a session that had a message and
\* something played
C6_Witness ==
  \E t \in Tasks, q \in 1..Len(states) :
    /\ tasks[t].pc = "start_send"
    /\ TRACKERS[tasks[t].guild] = tasks[t].state
    /\ q # tasks[t].state
    /\ states[q].guild_id = tasks[t].guild
    /\ states[q].message_id # None
    /\ states[q].player1.played # {}
    /\ states[tasks[t].state].player1.played = {}

\* C7: for every player the two counts of remaining_counts add up to the size
\* of the catalog minus the number of operators played; the two catalog lists
\* are disjoint and free of duplicates.
C7_RemainingSum ==
  /\ Cardinality(SetOf(ATTACKERS)) = Len(ATTACKERS)
  /\ Cardinality(SetOf(DEFENDERS)) = Len(DEFENDERS)
  /\ SetOf(ATTACKERS) \cap SetOf(DEFENDERS) = {}
  /\ \A p \in Players :
       remaining_counts(p)[1] + remaining_counts(p)[2]
         = (Len(ATTACKERS) + Len(DEFENDERS)) - Cardinality(p.played)

\* C7 witness: a player has played an attacker and a defender
C7_Witness == \E p \in Players : p.played = { "Ace", "Doc" }

\* C8: for every player of every session, played is the set of the elements
\* of history and history holds no operator twice.
C8_HistoryIsPlayed ==
  \A p \in Players :
    /\ p.played = SetOf(p.history)
    /\ Len(p.history) = Cardinality(p.played)

\* C8 witness: a second /tracker play of Doc for player 2 has been rejected and
\* the history still holds Doc once
C8_Witness ==
  \E t \in Tasks :
    /\ tasks[t].pc = "reply"
    /\ tasks[t].outcome = "AlreadyConsumed"
    /\ tasks[t].which = "P2"
    /\ states[tasks[t].state].player2.history = << "Doc" >>

\* the handlers inside their mutate-and-refresh sequence for guild g:
\* tracker_start from the registry replacement to the storing of the message
\* ids, the others between acquiring and releasing a lock
InSequence(g) ==
  { t \in Tasks : /\ tasks[t].pc \in InLock \cup { "start_send", "start_orig" }
                  /\ states[tasks[t].state].guild_id = g }

\* C9 as stated: the handlers of one guild are serialized as if by one lock
\* per guild that tracker_start holds too: never are two of them inside their
\* mutate-and-refresh sequence.
C9_OneTriggerPerKey == \A g \in GuildIds : Cardinality(InSequence(g)) <= 1

\* the positions of event e in a handler's log
At(log, e) == { i \in 1..Len(log) : log[i] = e }

\* C10 as stated: a handler that has changed the session (Recorded, or a score
\* change) has, when it reaches its last await before the lock is released,
\* started a display refresh after the change and a snapshot save after the
\* refresh; a handler that changed nothing has started neither.
C10_RefreshThenPersist ==
  \A t \in Tasks :
    tasks[t].pc \in { "reply", "defer" } =>
      IF tasks[t].outcome \in { "Recorded", "Adjusted" }
      THEN \E i \in At(tasks[t].log, "mutate"), j \in At(tasks[t].log, "refresh"),
              k \in At(tasks[t].log, "persist") : i < j /\ j < k
      ELSE At(tasks[t].log, "refresh") = {} /\ At(tasks[t].log, "persist") = {}

\* C11 as stated: a failure of the fetch or of the edit made during a mutation
\* is discarded: a handler that has recorded an operator or changed a score and
\* awaits fetch_message or msg.edit goes on to its confirmation (or to the
\* acknowledgement of the button) whatever the call does, with the mutation
\* still applied; it never ends there without answering.
C11_FailureDiscarded ==
  [][ \A t \in Tasks :
        ( /\ tasks[t].pc \in { "fetch", "edit" }
          /\ tasks[t].outcome \in { "Recorded", "Adjusted" }
          /\ tasks'[t] # tasks[t] )
        => /\ tasks'[t].pc \in { "edit", "reply", "defer" }
           /\ tasks'[t].outcome = tasks[t].outcome
           /\ player(states'[tasks[t].state], tasks[t].which)
                = player(states[tasks[t].state], tasks[t].which) ]_vars

\* ------------------------------------------------------------------ snapshot store
\* src/main.py holds no snapshot code: the store, the codec and the restore
\* below follow sections 3, 4.4, 4.5 and 4.6 of the specification.  SpecStore
\* runs them on their own, with sessions reduced to what a snapshot records.
MinInterval    == 10   \* 4.4: the minimum interval between non-forced saves (default 10)
RetentionLimit == 5    \* 4.4: the number of records kept per session key (default 5)
SchemaVersion  == 1    \* 4.6: the schemaVersion the codec writes and recognizes

MaxTime     == 21   \* the clock stops here
MaxSaves    == 7    \* records appended for a key over a run
MaxStored   == 3    \* records found in storage when the process starts

\* the steps by which the clock advances between two events
TimeSteps == { MinInterval - 1, MinInterval }

\* 4.3 startSession as the store sees it: two empty participants under key k
StoreSession(k, names) ==
  [ sessionKey |-> k, displayLocation |-> None,
    player1 |-> PlayerState(names[1]), player2 |-> PlayerState(names[2]) ]

\* the operators of the catalog that are in `played`, in catalog order
ConsumedList(played) == SelectSeq(ALL_OPERATORS, LAMBDA op : op \in played)

\* 4.6 encode, one participant: {name, score, consumed (sorted), history}
encode_participant(p) ==
  [ name |-> p.name, score |-> p.kills, consumed |-> ConsumedList(p.played),
    history |-> p.history ]

\* 4.6 encode: SessionState -> SnapshotRecord, total and deterministic
encode(session) ==
  [ schemaVersion |-> SchemaVersion, sessionKey |-> session.sessionKey,
    displayLocation |-> session.displayLocation,
    participantA |-> encode_participant(session.player1),
    participantB |-> encode_participant(session.player2) ]

RequiredFields == { "sessionKey", "displayLocation", "participantA", "participantB" }

ParticipantFields == { "name", "score", "consumed", "history" }

\* 4.6 decode, one participant
decode_participant(r) ==
  [ name |-> r.name, kills |-> r.score, played |-> SetOf(r.consumed), history |-> r.history ]

\* 4.6 decode: the whole SessionState, or a DecodeError and nothing else
decode(payload) ==
  IF "schemaVersion" \notin DOMAIN payload
  THEN [ ok |-> FALSE, error |-> "MalformedPayload" ]
  ELSE IF payload.schemaVersion # SchemaVersion
  THEN [ ok |-> FALSE, error |-> "UnsupportedVersion" ]
  ELSE IF ~ (RequiredFields \subseteq DOMAIN payload)
  THEN [ ok |-> FALSE, error |-> "MalformedPayload" ]
  ELSE IF \/ DOMAIN payload.participantA # ParticipantFields
          \/ DOMAIN payload.participantB # ParticipantFields
  THEN [ ok |-> FALSE, error |-> "MalformedPayload" ]
  ELSE [ ok |-> TRUE,
         session |-> [ sessionKey |-> payload.sessionKey,
                       displayLocation |-> payload.displayLocation,
                       player1 |-> decode_participant(payload.participantA),
                       player2 |-> decode_participant(payload.participantB) ] ]

\* 4.4: whether a request is dropped: not forced, and less than the minimum
\* interval since the last save of this key
Debounced(st, k, force) ==
  /\ ~force
  /\ st.last[k] # None
  /\ st.now - st.last[k] < MinInterval

\* (mutant) a forced request is debounced like any other
persist_ForceDebounced(st, k, force) ==
  IF Debounced(st, k, FALSE)
  THEN [ st EXCEPT !.req[k] = [ force |-> force, result |-> "dropped" ] ]
  ELSE [ st EXCEPT !.last[k] = st.now,
                   !.phase[k] = "Saving",
                   !.req[k] = [ force |-> force, result |-> "pending",
                                payload |-> encode(st.registry[k]) ] ]

\* 4.4: a persistence request for key k, up to the write: dropped, or the
\* session is serialized, the save timestamp recorded and the key is Saving
persist(st, k, force) ==
  IF Debounced(st, k, force)
  THEN [ st EXCEPT !.req[k] = [ force |-> force, result |-> "dropped" ] ]
  ELSE [ st EXCEPT !.last[k] = st.now,
                   !.phase[k] = "Saving",
                   !.req[k] = [ force |-> force, result |-> "pending",
                                payload |-> encode(st.registry[k]) ] ]

\* the clock advances
Tick(d) ==
  /\ store.now + d <= MaxTime
  /\ store' = [ store EXCEPT !.now = @ + d ]
  /\ UNCHANGED << TRACKERS, states, messages, tasks, events, call >>

\* 4.3 startSession for key k, which has no session yet (the store is followed
\* over one session per key); 4.5: a restore of the key still under way has lost
StoreStart(k, names) ==
  /\ store.registry[k] = NoSession
  /\ store' = [ store EXCEPT !.registry[k] = StoreSession(k, names),
                             !.restore[k] = IF @ = "done" THEN "done" ELSE "lost",
                             !.found[k] = NoSession ]
  /\ UNCHANGED << TRACKERS, states, messages, tasks, events, call >>

\* the score deltas applied to the sessions the store saves: +1, and the
\* penalty, followed at score 0 where it leaves the score as it is
StoreDeltas == { 1, -10 }

\* 4.3 applyScoreDelta(which, delta) for key k, then the non-forced persistence
\* request that ends every mutation
StoreMutate(k, which, delta) ==
  /\ store.registry[k] # NoSession
  /\ store.phase[k] = "Idle"
  /\ LET session == store.registry[k]
         p       == IF which = "P1" THEN session.player1 ELSE session.player2
         q       == adjusted(p, delta)
         changed == IF which = "P1" THEN [ session EXCEPT !.player1 = q ]
                                    ELSE [ session EXCEPT !.player2 = q ]
     IN  /\ delta > 0 => p.kills < MaxKills
         /\ delta < 0 => p.kills = 0
         /\ store' = persist([ store EXCEPT !.registry[k] = changed ], k, FALSE)
  /\ UNCHANGED << TRACKERS, states, messages, tasks, events, call >>

\* a forced persistence request for key k
StoreForce(k) ==
  /\ store.registry[k] # NoSession
  /\ store.phase[k] = "Idle"
  /\ store' = persist(store, k, TRUE)
  /\ UNCHANGED << TRACKERS, states, messages, tasks, events, call >>

\* 4.4 pruning: the records of a key beyond the newest RetentionLimit, by name
Excess(fs) ==
  { fs[i].seq : i \in 1..(IF Len(fs) > RetentionLimit THEN Len(fs) - RetentionLimit ELSE 0) }

\* the records left when those named in D are deleted
Without(fs, D) == SelectSeq(fs, LAMBDA r : r.seq \notin D)

\* 4.4: the records of key k once the record of the accepted request is
\* appended, named by key and creation order
WithRecord(st, k) ==
  Append(st.files[k], [ seq |-> st.appended[k] + 1, payload |-> st.req[k].payload ])

\* (mutant) pruning that keeps the oldest records
written_KeepOldest(st, k, D) ==
  LET n  == st.appended[k] + 1
      fs == WithRecord(st, k)
  IN  [ st EXCEPT !.files[k] = IF Len(fs) > RetentionLimit
                               THEN SubSeq(fs, 1, RetentionLimit) ELSE fs,
                  !.appended[k] = n,
                  !.phase[k] = "Idle",
                  !.req[k] = [ force |-> st.req[k].force,
                               result |-> IF D = Excess(fs) THEN "saved" ELSE "unpruned" ] ]

\* 4.4: the append succeeds, and the records named in D (all of the excess when pruning succeeds) are deleted
written(st, k, D) ==
  LET n  == st.appended[k] + 1
      fs == WithRecord(st, k)
  IN  [ st EXCEPT !.files[k] = Without(fs, D),
                  !.appended[k] = n,
                  !.phase[k] = "Idle",
                  !.req[k] = [ force |-> st.req[k].force,
                               result |-> IF D = Excess(fs) THEN "saved" ELSE "unpruned" ] ]

\* 4.4: the write of an accepted request ends: the record is appended and the
\* old ones pruned (a failed enumeration or deletion leaves records behind),
\* or the append fails and the failure is swallowed
StoreWrite(k) ==
  /\ store.phase[k] = "Saving"
  /\ \/ /\ store.appended[k] < MaxSaves
        /\ \E D \in SUBSET Excess(WithRecord(store, k)) :
             store' = written(store, k, D)
     \/ store' = [ store EXCEPT !.phase[k] = "Idle",
                                !.req[k] = [ force |-> store.req[k].force, result |-> "failed" ] ]
  /\ UNCHANGED << TRACKERS, states, messages, tasks, events, call >>

\* what the payload of a stored record can be found to be: no longer of a
\* recognized version, or short of a required field
Damages == { "version", "field" }

Damaged(payload, how) ==
  IF how = "version"
  THEN [ payload EXCEPT !.schemaVersion = SchemaVersion + 1 ]
  ELSE [ f \in DOMAIN payload \ { "participantB" } |-> payload[f] ]

\* (mutant) restore that gives up at the first record that does not decode
newest_valid_NewestOnly(fs) ==
  IF fs = << >> THEN NoSession
  ELSE LET r == decode(fs[Len(fs)].payload)
       IN  IF r.ok THEN r.session ELSE NoSession

\* 4.5: the session of the newest record of fs that decodes, if there is one
RECURSIVE newest_valid(_)
newest_valid(fs) ==
  IF fs = << >> THEN NoSession
  ELSE LET r == decode(fs[Len(fs)].payload)
       IN  IF r.ok THEN r.session ELSE newest_valid(SubSeq(fs, 1, Len(fs) - 1))

\* 4.5 restore-on-start for key k begins: the stored records are enumerated
\* newest first and the first that decodes is taken
RestoreBegin(k) ==
  /\ store.restore[k] = "todo"
  /\ store' = [ store EXCEPT !.restore[k] = "begun", !.found[k] = newest_valid(store.files[k]) ]
  /\ UNCHANGED << TRACKERS, states, messages, tasks, events, call >>

\* 4.5 restore-on-start for key k completes: the session found is installed whole
RestoreInstall(k) ==
  /\ store.restore[k] = "begun"
  /\ store' = [ store EXCEPT !.restore[k] = "done",
                             !.found[k] = NoSession,
                             !.registry[k] = store.found[k] ]
  /\ UNCHANGED << TRACKERS, states, messages, tasks, events, call >>

NextStore ==
  \/ \E d \in TimeSteps : Tick(d)
  \/ \E k \in StoreKeys, names \in NamePairs : StoreStart(k, names)
  \/ \E k \in StoreKeys, which \in { "P1", "P2" }, delta \in StoreDeltas :
        StoreMutate(k, which, delta)
  \/ \E k \in StoreKeys : StoreForce(k)
  \/ \E k \in StoreKeys : StoreWrite(k)

SpecStore == Init /\ [][NextStore]_vars

\* ------------------------------------------------------------------ restore-on-start
\* SpecRestore starts the process on records left in storage by an earlier run.
\* the sessions an earlier run can have saved
StoredSessions ==
  LET fresh == StoreSession(1, << Ama, Beto >>)
  IN  { fresh,
        [ fresh EXCEPT !.player1 = adjusted(@, 1) ],
        [ fresh EXCEPT !.player2 = adjusted(@, 1) ] }

\* the payloads found in storage: records as the codec wrote them, and
\* records that are no longer of a recognized version or lack a required field
StoredPayloads ==
  { encode(session) : session \in StoredSessions }
    \cup { Damaged(encode(session), how) : session \in StoredSessions \ { StoreSession(1, << Ama, Beto >>) },
                                            how \in Damages }

\* the records found in storage for a key, oldest first
StoredFiles ==
  UNION { { [ i \in 1..n |-> [ seq |-> i, payload |-> f[i] ] ] : f \in [ 1..n -> StoredPayloads ] } :
          n \in 0..MaxStored }

\* the process starts: nothing is registered and every key is to be restored
InitRestore ==
  /\ TRACKERS = [ g \in GuildIds |-> None ]
  /\ states = << >>
  /\ messages = << >>
  /\ tasks = [ t \in Tasks |-> IdleTask ]
  /\ events = 0
  /\ call = NoCall
  /\ \E fs \in [ StoreKeys -> StoredFiles ] :
        store = [ NoStore EXCEPT !.files = fs,
                                 !.appended = [ k \in StoreKeys |-> Len(fs[k]) ],
                                 !.restore = [ k \in StoreKeys |-> "todo" ] ]

NextRestore ==
  \/ \E k \in StoreKeys : RestoreBegin(k)
  \/ \E k \in StoreKeys : RestoreInstall(k)
  \/ \E k \in StoreKeys, names \in NamePairs : StoreStart(k, names)

SpecRestore == InitRestore /\ [][NextRestore]_vars

\* the step in which a persistence request for key k arrives (at the end of a
\* mutation when not forced)
Requested(k, force) ==
  /\ store.phase[k] = "Idle"
  /\ store.registry[k] # NoSession
  /\ store' # store
  /\ store'.now = store.now
  /\ store'.req[k].force = force

\* the request that arrives in this step is dropped: nothing is stored or
\* scheduled for it and the save timestamp stays
Dropped(k) ==
  /\ store'.req[k].result = "dropped"
  /\ store'.phase[k] = "Idle"
  /\ store'.last[k] = store.last[k]
  /\ store'.files[k] = store.files[k]
  /\ store'.appended[k] = store.appended[k]

\* the request that arrives in this step is accepted: the save timestamp is
\* set to the present time while the record is yet to be written
Accepted(k) ==
  /\ store'.req[k].result = "pending"
  /\ store'.phase[k] = "Saving"
  /\ store'.last[k] = store.now
  /\ store'.files[k] = store.files[k]
  /\ store'.appended[k] = store.appended[k]

C12_DebounceStep ==
  \A k \in StoreKeys :
    /\ Requested(k, FALSE) =>
         IF store.last[k] # None /\ store.now - store.last[k] < MinInterval
         THEN Dropped(k) ELSE Accepted(k)
    /\ Requested(k, TRUE) => Accepted(k)
    \* a record is stored only by the write of a pending accepted request: one
    \* record, with the timestamp left as the request set it
    /\ store'.appended[k] # store.appended[k] =>
         /\ store.phase[k] = "Saving"
         /\ store.req[k].result = "pending"
         /\ store'.appended[k] = store.appended[k] + 1
         /\ store'.last[k] = store.last[k]
    \* a dropped request is not taken up later: while the key is Idle only a new
    \* request makes it Saving
    /\ (store.phase[k] = "Idle" /\ store'.phase[k] = "Saving") =>
         Requested(k, store'.req[k].force)

Stored(k) == { store.files[k][i].seq : i \in 1..Len(store.files[k]) }

\* the names of the n most recently created records of key k
Newest(k, n) ==
  { q \in 1..store.appended[k] : q > store.appended[k] - n }

\* C13: whenever the last save of a key has succeeded and its pruning too, the
\* key has at most RetentionLimit records and they are the most recently
\* created ones, whatever failed before; after RetentionLimit + 1 saves they
\* are exactly the RetentionLimit newest.
C13_Retention ==
  \A k \in StoreKeys :
    store.req[k].result = "saved" =>
      /\ Len(store.files[k]) <= RetentionLimit
      /\ Cardinality(Stored(k)) = Len(store.files[k])
      /\ Stored(k) = Newest(k, RetentionLimit)
      /\ store.appended[k] = RetentionLimit + 1 =>
           /\ Len(store.files[k]) = RetentionLimit
           /\ Stored(k) = 2..(RetentionLimit + 1)

\* C13 witness: RetentionLimit + 1 records were appended within less than
\* MinInterval (all but the first by forced requests, then), the last write
\* and its pruning have succeeded and RetentionLimit records remain
C13_Witness ==
  \E k \in StoreKeys :
    /\ store.req[k] = [ force |-> TRUE, result |-> "saved" ]
    /\ store.appended[k] = RetentionLimit + 1
    /\ Len(store.files[k]) = RetentionLimit
    /\ store.now < MinInterval

\* the session a stored payload was written for, if it is a payload as the
\* codec writes it
Meant(payload) == { session \in StoredSessions : encode(session) = payload }

\* the positions of the records of fs that are as the codec wrote them
Intact(fs) == { i \in 1..Len(fs) : Meant(fs[i].payload) # {} }

\* the session restore-on-start has to install from the records fs: that of
\* the newest intact record, none when no record is intact
Expected(fs) ==
  IF Intact(fs) = {} THEN { NoSession }
  ELSE Meant(fs[CHOOSE i \in Intact(fs) : \A j \in Intact(fs) : j <= i].payload)

C14_RestoreStep ==
  \A k \in StoreKeys :
    \* the search takes the newest record that decodes
    /\ (store.restore[k] = "todo" /\ store'.restore[k] = "begun") =>
         store'.found[k] \in Expected(store.files[k])
    \* the installation puts that session, whole, under the key
    /\ (store.restore[k] = "begun" /\ store'.restore[k] = "done") =>
         /\ store'.registry[k] \in Expected(store.files[k])
         /\ store'.registry[k] \in StoredSessions \cup { NoSession }
         /\ store'.files[k] = store.files[k]
    \* until then only an explicit start registers a session
    /\ (store.restore[k] # "done" /\ store'.registry[k] # store.registry[k]) =>
         \/ store.restore[k] = "begun" /\ store'.restore[k] = "done"
         \/ store'.restore[k] = "lost"

\* C14: restore-on-start installs the session of the newest stored record
\* that decodes, passing over newer records that are malformed or of an
\* unsupported version and leaving older ones aside; with no such record the
\* key stays without a session until an explicit start; what is installed is a
\* whole session or nothing.
C14_Restore == [][C14_RestoreStep]_vars

\* C14 witness: storage held a valid record and a newer malformed one, and the
\* restore has installed the session of the valid older record
C14_Witness ==
  \E k \in StoreKeys :
    /\ store.restore[k] = "done"
    /\ Len(store.files[k]) = 2
    /\ decode(store.files[k][1].payload).ok
    /\ ~ decode(store.files[k][2].payload).ok
    /\ decode(store.files[k][2].payload).error = "MalformedPayload"
    /\ store.registry[k] = decode(store.files[k][1].payload).session
    /\ store.registry[k].player1.kills = 1

\* C15 as stated: when tracker_play issues its Recorded confirmation, the
\* operator is in played of the chosen player of the session then registered
\* for the guild, on every interleaving, a tracker_start of the guild in between
\* included.
C15_RecordedInRegistered ==
  [][ \A t \in Tasks :
        ( /\ tasks[t].pc # "reply"
          /\ tasks'[t].pc = "reply"
          /\ tasks'[t].kind = "play"
          /\ tasks'[t].outcome = "Recorded" )
        => /\ TRACKERS'[tasks'[t].guild] # None
           /\ tasks'[t].operator
                \in player(states'[TRACKERS'[tasks'[t].guild]], tasks'[t].which).played ]_vars

\* C16 as stated: whenever no handler is running, the session registered for a
\* guild has its message ids stored and its message still exists, what was
\* last written to the message is the tracker embed of the session as it is.
C16_DisplayCurrent ==
  (\A t \in Tasks : tasks[t].pc = "idle") =>
    \A g \in GuildIds :
      LET o == TRACKERS[g]
      IN  ( /\ o # None
            /\ states[o].message_id # None
            /\ messages[states[o].message_id].status = "live" )
          => messages[states[o].message_id].embed = TrackerEmbed(states[o])

\* ------------------------------------------------------------------ progress
\* handler t goes on from where it is suspended: the call it awaits returns
\* or raises, or the lock it waits for is handed to it
Returns(t) ==
  /\ \/ StartSend(t) \/ StartOrig(t) \/ Resume(t)
     \/ Fetch(t) \/ Edit(t) \/ Reply(t) \/ Send(t)
  /\ UNCHANGED << events, call, store >>

\* the handlers under an event loop that runs every handler that can go on,
\* with external calls that all return or raise in the end
SpecFair == Spec /\ \A t \in Tasks : WF_vars(Returns(t))

\* the handlers waiting in Lock.acquire for the lock of states[o]
Waiting(o) == { t \in Tasks : tasks[t].pc = "wait" /\ tasks[t].state = o }

\* no lock is left held without a holder and no waiter is left without
\* somebody to wake it: the waiters of a lock are the handlers queued on it, and
\* when there are some the lock is held by a handler inside it or is being
\* handed to the first of them
C17_NoDeadlock ==
  \A o \in 1..Len(states) :
    LET lock == states[o].lock
    IN  /\ lock.locked <=> Holders(o) # {}
        /\ SetOf(lock.waiters) = Waiting(o)
        /\ Cardinality(Waiting(o)) = Len(lock.waiters)
        /\ Waiting(o) # {} => (Holders(o) # {} \/ ~lock.locked)

\* a handler is made to wait only by its own session's lock, and it stops
\* waiting only by taking that lock, free and with the handler first in line
C17_OwnLockOnly ==
  \A t \in Tasks :
    /\ (tasks[t].pc = "idle" /\ tasks'[t].pc = "wait") =>
         LET lock == states[tasks'[t].state].lock
         IN  lock.locked \/ lock.waiters # << >>
    /\ (tasks[t].pc = "wait" /\ tasks'[t].pc # "wait") =>
         LET lock == states[tasks[t].state].lock
         IN  ~lock.locked /\ Head(lock.waiters) = t

\* no handler is waiting for a lock or inside one
Quiescent == \A t \in Tasks : tasks[t].pc \notin ({ "wait" } \cup InLock)

Unlocked(s) == [ s EXCEPT !.lock = NewLock ]

\* the player that `which` does not name
Other(which) == IF which = "P1" THEN "P2" ELSE "P1"

\* what one step of a handler other than tracker_start does to the sessions:
\* tracker_play that records changes played and history of the chosen player of
\* its session, a kill button changes the chosen player's kills, and every
\* other step (a play answered UnknownItem, AlreadyConsumed or with an unknown
\* player, show, remaining, and every later step of any of them) changes
\* nothing but locks
C18_FrameStep ==
  \A t \in Tasks :
    (tasks'[t] # tasks[t] /\ tasks[t].kind # "start" /\ tasks'[t].kind # "start") =>
      /\ TRACKERS' = TRACKERS
      /\ Len(states') = Len(states)
      /\ \A q \in 1..Len(states) :
           LET tk == tasks'[t]
           IN  IF Enters(t, "play") /\ tk.outcome = "Recorded" /\ q = tk.state
               THEN LET before == player(states[q], tk.which)
                        after  == player(states'[q], tk.which)
                    IN  /\ [ after EXCEPT !.played = before.played,
                                          !.history = before.history ] = before
                        /\ after.played # before.played
                        /\ after.history # before.history
                        /\ Unlocked(WithPlayer(states', q, tk.which, before)[q]) = Unlocked(states[q])
               ELSE IF Enters(t, "adjust") /\ q = tk.state
               THEN LET before == player(states[q], tk.which)
                        after  == player(states'[q], tk.which)
                    IN  /\ [ after EXCEPT !.kills = before.kills ] = before
                        /\ Unlocked(WithPlayer(states', q, tk.which, before)[q]) = Unlocked(states[q])
               ELSE Unlocked(states'[q]) = Unlocked(states[q])

\* C18: frame conditions of the mutators: a recorded play changes only the
\* chosen player's played set and history, a kill button changes only the chosen
\* player's score, and a play that ends in UnknownItem, AlreadyConsumed or an
\* unknown player, tracker_show and tracker_remaining change no session state;
\* none of them changes the other player, the message location, another session
\* or the registry.
C18_Frame == [][C18_FrameStep]_vars

\* C18 witness: an operator has just been recorded for player 2 of a session
\* whose player 1 has a score and has played nothing
C18_Witness ==
  \E t \in Tasks :
    /\ tasks[t].kind = "play"
    /\ tasks[t].pc \in InLock
    /\ tasks[t].outcome = "Recorded"
    /\ tasks[t].which = "P2"
    /\ states[tasks[t].state].player2.played = { tasks[t].operator }
    /\ states[tasks[t].state].player1.kills = 1
    /\ states[tasks[t].state].player1.played = { }

\* ------------------------------------------------------------------ C19
\* C19: in every reachable state every player's played set and history hold
\* catalog operators only, whatever operator strings /tracker play is given:
\* "ace" and " Ace", which differ from the catalog's "Ace" in letter case and in
\* a leading space, are never recorded.
C19_PlayedInCatalog ==
  \A p \in Players :
    /\ p.played \subseteq AllItems
    /\ SetOf(p.history) \subseteq AllItems

\* C19 witness: /tracker play with " Ace" has been answered UnknownItem for a
\* player who has played Ace and nothing else
C19_Witness ==
  \E t \in Tasks :
    /\ tasks[t].kind = "play"
    /\ tasks[t].pc = "reply"
    /\ tasks[t].operator = " Ace"
    /\ tasks[t].outcome = "UnknownItem"
    /\ player(states[tasks[t].state], tasks[t].which).played = { "Ace" }

\* ------------------------------------------------------------------ C20
\* sequence a is the beginning of sequence b
IsPrefix(a, b) == Len(a) <= Len(b) /\ SubSeq(b, 1, Len(a)) = a

\* one step never shortens or rewrites a history and never takes an operator
\* out of a played set of any session object, and no session object goes away
C20_AppendOnlyStep ==
  /\ Len(states') >= Len(states)
  /\ \A q \in 1..Len(states), which \in { "P1", "P2" } :
       LET before == player(states[q], which)
           after  == player(states'[q], which)
       IN  /\ IsPrefix(before.history, after.history)
           /\ before.played \subseteq after.played

\* the operators a guild's registered session shows as played go away only in
\* the step in which tracker_start registers a new session for the guild
C20_LostOnlyByStart ==
  \A g \in GuildIds, which \in { "P1", "P2" } :
    (TRACKERS[g] # None /\ TRACKERS'[g] # None) =>
      LET before == player(states[TRACKERS[g]], which)
          after  == player(states'[TRACKERS'[g]], which)
      IN  ~(before.played \subseteq after.played) =>
            /\ TRACKERS'[g] # TRACKERS[g]
            /\ \E t \in Tasks :
                 /\ tasks[t].pc = "idle"
                 /\ tasks'[t].kind = "start"
                 /\ tasks'[t].state = TRACKERS'[g]

\* C20: within one session object the history is append-only and the played
\* set never loses an operator, across every step; a guild's played operators
\* go away only when tracker_start replaces the whole session.
C20_AppendOnly == [][C20_AppendOnlyStep /\ C20_LostOnlyByStart]_vars

\* C20 witness: Doc has just been recorded for a player who had played Ace
\* before, and the history holds both in that order
C20_Witness ==
  \E t \in Tasks :
    /\ tasks[t].kind = "play"
    /\ tasks[t].pc \in InLock
    /\ tasks[t].outcome = "Recorded"
    /\ tasks[t].operator = "Doc"
    /\ player(states[tasks[t].state], tasks[t].which).history = << "Ace", "Doc" >>

\* ------------------------------------------------------------------ C21
\* SpecWalk calls last_from_history once on a PlayerState drawn at the start.
MaxWalk == 7   \* the longest history of the PlayerStates drawn

\* the default of last_from_history's parameter n, the only value it is called with
DefaultN == 5

\* the operators of the histories drawn: six attackers, so that one side can
\* exceed n, and one defender
WalkOperators == { "Ace", "Ash", "Ram", "Grim", "Sens", "Osa", "Doc" }

\* the histories of length n that add_play can build: no operator twice
RECURSIVE WalkHistories(_)
WalkHistories(n) ==
  IF n = 0 THEN { << >> }
  ELSE UNION { { Append(h, op) : op \in WalkOperators \ SetOf(h) } :
                 h \in WalkHistories(n - 1) }

WalkPlayers ==
  { [ name |-> Ama, kills |-> 0, played |-> SetOf(h), history |-> h ] :
      h \in UNION { WalkHistories(n) : n \in 0..MaxWalk } }

\* a PlayerState as the handlers left it, about to be formatted
InitWalk ==
  /\ TRACKERS = [ g \in GuildIds |-> None ]
  /\ states = << >>
  /\ messages = << >>
  /\ tasks = [ t \in Tasks |-> IdleTask ]
  /\ events = 0
  /\ store = NoStore
  /\ \E p \in WalkPlayers : call = [ fn |-> "PlayerState", p |-> p ]

\* format_player_block's call last_from_history(side_set) on that PlayerState
CallLastFromHistory(side_set) ==
  /\ call.fn = "PlayerState"
  /\ call' = [ fn |-> "last_from_history", p |-> call.p, side_set |-> side_set,
               out |-> last_from_history(call.p, side_set, DefaultN) ]
  /\ UNCHANGED << TRACKERS, states, messages, tasks, events, store >>

NextWalk == \E side_set \in { ATT_SET, DEF_SET } : CallLastFromHistory(side_set)

SpecWalk == InitWalk /\ [][NextWalk]_vars

Min(a, b) == IF a <= b THEN a ELSE b

\* where operator op stands in history h (histories hold no operator twice)
PositionIn(h, op) == CHOOSE i \in 1..Len(h) : h[i] = op

\* C21: last_from_history(side_set) with n = 5 returns the operators of the
\* side in the history, most recent first, up to n of them: the result has
\* min(n, number of played operators of the side) entries, all of the side and
\* no two alike, each more recent than the next, and every operator of the
\* side that is left out is older than every one returned; it is empty when
\* the player has played nothing of the side.
C21_RecentBySide ==
  call.fn = "last_from_history" =>
    LET h    == call.p.history
        side == call.side_set
        out  == call.out
    IN  /\ Len(out) = Min(DefaultN, Cardinality(call.p.played \cap side))
        /\ SetOf(out) \subseteq SetOf(h) \cap side
        /\ Cardinality(SetOf(out)) = Len(out)
        /\ \A i \in 1..Len(out), j \in 1..Len(out) :
             i < j => PositionIn(h, out[i]) > PositionIn(h, out[j])
        /\ \A op \in (SetOf(h) \cap side) \ SetOf(out), i \in 1..Len(out) :
             PositionIn(h, op) < PositionIn(h, out[i])
        /\ call.p.played \cap side = { } => out = << >>

\* C21 witness: last_from_history(ATT_SET) was called on a history of six
\* attackers with a defender as the newest entry, and returned the five most
\* recent attackers
C21_Witness ==
  /\ call.fn = "last_from_history"
  /\ call.side_set = ATT_SET
  /\ call.p.history = << "Ace", "Ash", "Ram", "Grim", "Sens", "Osa", "Doc" >>
  /\ call.out = << "Osa", "Sens", "Grim", "Ram", "Ash" >>
====
